---- MODULE Spec2Model ----
(***************************************************************************)
(* A model of label_memories.py: the record extractor (transform_record),  *)
(* the JSONL loader (load_data_and_labels), the session state kept in      *)
(* st.session_state (all_data, data, index, labels, the widget values),    *)
(* the navigation callbacks and the exporter (generate_labeled_data_jsonl).*)
(*                                                                         *)
(* Python values are tagged records [ty, v]:                               *)
(*   "str"  v = a sequence of text tokens (the empty string is <<>>)       *)
(*   "num"  v = an integer         "bool" v = a boolean                    *)
(*   "null" v = 0 (Python None)    "list" v = a sequence of values         *)
(*   "obj"  v = a function from field names to values (a dict)             *)
(* A text token stands for a run of characters; the markers the code       *)
(* searches for ("<MEMORY", "[", Fence, ...) are tokens of their own.      *)
(***************************************************************************)
EXTENDS Integers, Sequences, FiniteSets, TLC

VARIABLES
    uploaded_file,    \* the file held by st.file_uploader: NoFile or its lines
    all_data,         \* st.session_state.all_data
    data,             \* st.session_state.data
    index,            \* st.session_state.index
    labels,           \* st.session_state.labels: observation_id -> label dict
    current_file_id,  \* st.session_state.current_file_id
    widgets,          \* the widget keys of st.session_state: observation_id -> values
    lastOp,           \* history: the last event handled, [op, from]
    raw,              \* input of transform_record (SpecExtract)
    extracted,        \* its result, or Pending
    input_lines,      \* input of load_data_and_labels (SpecLoad)
    load_result       \* its result, or Pending

vars == <<uploaded_file, all_data, data, index, labels, current_file_id, widgets,
          lastOp, raw, extracted, input_lines, load_result>>

sessionVars == <<uploaded_file, all_data, data, index, labels, current_file_id,
                 widgets, lastOp>>
extractVars == <<raw, extracted>>
loadVars == <<input_lines, load_result>>

-----------------------------------------------------------------------------
(* Python values *)

JStr(toks) == [ty |-> "str", v |-> toks]
JNum(n) == [ty |-> "num", v |-> n]
JBool(b) == [ty |-> "bool", v |-> b]
JList(items) == [ty |-> "list", v |-> items]
JObj(f) == [ty |-> "obj", v |-> f]
PyNone == [ty |-> "null", v |-> 0]
EmptyDict == <<>>
Str(tok) == JStr(<<tok>>)
EmptyStr == JStr(<<>>)

\* the result None of transform_record, and "not yet computed"
None == [none |-> TRUE]
Pending == [pending |-> TRUE]
NoFile == [present |-> FALSE, lines |-> <<>>]
File(lines) == [present |-> TRUE, lines |-> lines]

\* bool(x)
Truthy(x) ==
    CASE x.ty = "str" -> x.v # <<>>
      [] x.ty = "num" -> x.v # 0
      [] x.ty = "bool" -> x.v
      [] x.ty = "null" -> FALSE
      [] x.ty = "list" -> x.v # <<>>
      [] x.ty = "obj" -> DOMAIN x.v # {}

\* `tok in x` raises TypeError for a value that is no container
InRaises(x) == x.ty \in {"num", "bool", "null"}

\* `tok in x` for a str (substring), a list (an equal element), a dict (a key)
InHolds(tok, x) ==
    CASE x.ty = "str" -> \E i \in DOMAIN x.v : x.v[i] = tok
      [] x.ty = "list" -> \E i \in DOMAIN x.v : x.v[i] = Str(tok)
      [] x.ty = "obj" -> tok \in DOMAIN x.v
      [] OTHER -> FALSE

\* dict.get(key, default)
Get(d, key, default) == IF key \in DOMAIN d THEN d[key] ELSE default

\* dict.update / shallow merge: the fields of e win
Update(d, e) == [k \in DOMAIN d \cup DOMAIN e |-> IF k \in DOMAIN e THEN e[k] ELSE d[k]]

-----------------------------------------------------------------------------
(* Configuration *)

LABEL_CLASSIFICATIONS == <<Str("Correct"), Str("Incorrect"), Str("I'm not sure")>>
LastClassification == LABEL_CLASSIFICATIONS[Len(LABEL_CLASSIFICATIONS)]

LabelFields == {"human_label_timestamp", "human_label_classification",
                "human_label_critique", "human_label_correct_memory_optional"}

\* readings of datetime.now(): the clock is an input of every label write
Times == {0, 1}
Timestamp(t) == JNum(t)

-----------------------------------------------------------------------------
(* json.loads on a token string.  Atom tokens stand for the text of a      *)
(* complete JSON value; "[", "," and "]" build arrays; "ws" is white space.*)

AtomTokens == {"{m1}", "{m2}", "{k:v}", "7"}
AtomVal(tok) ==
    CASE tok = "{m1}" -> JObj([message |-> Str("m1")])
      [] tok = "{m2}" -> JObj([message |-> Str("m2")])
      [] tok = "{k:v}" -> JObj([k |-> Str("v")])
      [] tok = "7" -> JNum(7)

ParseFail == [ok |-> FALSE, val |-> PyNone, next |-> 0]

RECURSIVE ParseVal(_, _), ParseArr(_, _, _, _)
\* one JSON value starting at token i
ParseVal(t, i) ==
    IF i > Len(t) THEN ParseFail
    ELSE IF t[i] \in AtomTokens THEN [ok |-> TRUE, val |-> AtomVal(t[i]), next |-> i + 1]
    ELSE IF t[i] = "[" THEN ParseArr(t, i + 1, <<>>, "first")
    ELSE ParseFail
\* the rest of an array: st is "first" (element or "]"), "elem" (element
\* required, after a comma) or "sep" ("," or "]")
ParseArr(t, i, acc, st) ==
    IF i > Len(t) THEN ParseFail
    ELSE IF t[i] = "]" /\ st \in {"first", "sep"}
         THEN [ok |-> TRUE, val |-> JList(acc), next |-> i + 1]
    ELSE IF t[i] = "," /\ st = "sep" THEN ParseArr(t, i + 1, acc, "elem")
    ELSE IF st \in {"first", "elem"}
         THEN LET r == ParseVal(t, i)
              IN IF r.ok THEN ParseArr(t, r.next, Append(acc, r.val), "sep") ELSE ParseFail
    ELSE ParseFail

NoWs(t) == SelectSeq(t, LAMBDA tok : tok # "ws")

\* json.loads(text): [ok, val]; ok = FALSE stands for JSONDecodeError
json_loads_text(t) ==
    LET s == NoWs(t)
        r == ParseVal(s, 1)
    IN IF r.ok /\ r.next = Len(s) + 1 THEN [ok |-> TRUE, val |-> r.val]
       ELSE [ok |-> FALSE, val |-> PyNone]

\* str.find(tok) and str.rfind(tok) as 0-based token positions, -1 if absent
Find(t, tok) ==
    IF \E i \in DOMAIN t : t[i] = tok
    THEN (CHOOSE i \in DOMAIN t : t[i] = tok /\ \A j \in 1..(i - 1) : t[j] # tok) - 1
    ELSE -1
RFind(t, tok) ==
    IF \E i \in DOMAIN t : t[i] = tok
    THEN (CHOOSE i \in DOMAIN t : t[i] = tok /\ \A j \in (i + 1)..Len(t) : t[j] # tok) - 1
    ELSE -1
\* the slice t[a:b] with 0-based bounds, 0 <= a
Slice(t, a, b) == IF b <= a THEN <<>> ELSE SubSeq(t, a + 1, IF b > Len(t) THEN Len(t) ELSE b)

\* the token of a triple-backtick marker
Fence == "fence"

RECURSIVE Strip(_)
\* str.strip()
Strip(t) ==
    IF t = <<>> THEN t
    ELSE IF t[1] = "ws" THEN Strip(Tail(t))
    ELSE IF t[Len(t)] = "ws" THEN Strip(SubSeq(t, 1, Len(t) - 1))
    ELSE t

-----------------------------------------------------------------------------
(* transform_record *)

\* `"input" in record and "messages" in record["input"]`
HasMessagesRaises(r) == "input" \in DOMAIN r /\ InRaises(r["input"])
HasMessages(r) == "input" \in DOMAIN r /\ InHolds("messages", r["input"])
\* record["input"]["messages"] on a str or a list raises TypeError
MessagesRaises(r) == HasMessages(r) /\ r["input"].ty # "obj"
Messages(r) == r["input"].v["messages"]

RECURSIVE KeysSeq(_)
KeysSeq(S) ==
    IF S = {} THEN <<>>
    ELSE LET k == CHOOSE x \in S : TRUE IN <<Str(k)>> \o KeysSeq(S \ {k})

\* `for msg in messages`: the items iterated, TypeError for a non-iterable
IterRaises(m) == m.ty \in {"num", "bool", "null"}
Items(m) ==
    CASE m.ty = "list" -> m.v
      [] m.ty = "str" -> [i \in DOMAIN m.v |-> Str(m.v[i])]
      [] m.ty = "obj" -> KeysSeq(DOMAIN m.v)
      [] OTHER -> <<>>

IsSystem(msg) == Get(msg.v, "role", PyNone) = Str("system")
Content(msg) == Get(msg.v, "content", EmptyStr)

\* the system-prompt loop raises (AttributeError on msg.get, TypeError on
\* content + "\n\n") and the outer handler returns None
SystemLoopRaises(items) ==
    \E i \in DOMAIN items :
        \/ items[i].ty # "obj"
        \/ IsSystem(items[i]) /\ Content(items[i]).ty # "str"

RECURSIVE SystemPrompt(_)
SystemPrompt(items) ==
    IF items = <<>> THEN <<>>
    ELSE (IF IsSystem(items[1]) THEN Content(items[1]).v \o <<"\n\n">> ELSE <<>>)
             \o SystemPrompt(Tail(items))

\* one pass of the chat-history loop body on a message content; cur is
\* chat_history so far; abort = an exception left the for loop
ChatStep(content, cur) ==
    IF InRaises(content) THEN [val |-> cur, abort |-> TRUE]
    ELSE IF InHolds("Chat history", content) /\ InHolds("[", content) /\ InHolds("]", content)
    THEN IF content.ty # "str" THEN [val |-> cur, abort |-> TRUE]
         ELSE LET start_idx == Find(content.v, "[")
                  end_idx == RFind(content.v, "]") + 1
                  p == json_loads_text(Slice(content.v, start_idx, end_idx))
              IN IF start_idx > 0 /\ end_idx > start_idx /\ p.ok /\ p.val.ty = "list"
                 THEN [val |-> p.val, abort |-> FALSE]
                 ELSE [val |-> cur, abort |-> FALSE]
    ELSE [val |-> cur, abort |-> FALSE]

\* one pass of the existing-memories / chat-metadata loop body
FenceStep(header, wantTy, content, cur) ==
    IF InRaises(content) THEN [val |-> cur, abort |-> TRUE]
    ELSE IF InHolds(header, content) /\ InHolds(Fence, content)
    THEN IF content.ty # "str" THEN [val |-> cur, abort |-> TRUE]
         ELSE LET start_idx == Find(content.v, Fence) + 1
                  rest == Slice(content.v, start_idx, Len(content.v))
                  end_idx == Find(rest, Fence)
                  p == json_loads_text(Strip(Slice(rest, 0, end_idx)))
              IN IF end_idx > 0 /\ p.ok /\ p.val.ty = wantTy
                 THEN [val |-> p.val, abort |-> FALSE]
                 ELSE [val |-> cur, abort |-> FALSE]
    ELSE [val |-> cur, abort |-> FALSE]

RECURSIVE ChatHistory(_, _)
ChatHistory(items, cur) ==
    IF items = <<>> THEN cur
    ELSE LET s == ChatStep(Content(items[1]), cur)
         IN IF s.abort THEN s.val ELSE ChatHistory(Tail(items), s.val)

RECURSIVE FencedBlock(_, _, _, _)
FencedBlock(header, wantTy, items, cur) ==
    IF items = <<>> THEN cur
    ELSE LET s == FenceStep(header, wantTy, Content(items[1]), cur)
         IN IF s.abort THEN s.val ELSE FencedBlock(header, wantTy, Tail(items), s.val)

\* a slip in the aliasing: traceId is looked up first
ObservationId_TraceIdFirst(r) ==
    LET tv == Get(r, "traceId", PyNone)
    IN IF Truthy(tv) THEN tv ELSE Get(r, "id", PyNone)

\* `record.get("id") or record.get("traceId")`
ObservationId(r) ==
    LET idv == Get(r, "id", PyNone)
    IN IF Truthy(idv) THEN idv ELSE Get(r, "traceId", PyNone)

\* transform_record(record): the transformed dict, or None
transform_record(record) ==
    IF record.ty # "obj" THEN None
    ELSE LET r == record.v
             observation_id == ObservationId(r)
             llm_output == Get(r, "output", EmptyStr)
         IN IF ~Truthy(observation_id) THEN None
            ELSE IF HasMessagesRaises(r) \/ MessagesRaises(r) THEN None
            ELSE IF HasMessages(r) /\ IterRaises(Messages(r)) THEN None
            ELSE LET items == IF HasMessages(r) THEN Items(Messages(r)) ELSE <<>>
                 IN IF SystemLoopRaises(items) \/ InRaises(llm_output) THEN None
                    ELSE [observation_id |-> observation_id,
                          llm_output |-> llm_output,
                          system_prompt |-> JStr(SystemPrompt(items)),
                          chat_history |-> ChatHistory(items, JList(<<>>)),
                          existing_memories |->
                              FencedBlock("Current memories", "list", items, JList(<<>>)),
                          chat_metadata |->
                              FencedBlock("Chat metadata", "obj", items, JObj(EmptyDict)),
                          alert_type |-> IF InHolds("<MEMORY", llm_output)
                                         THEN Str("memory") ELSE Str("no_memory")]

-----------------------------------------------------------------------------
(* load_data_and_labels *)

\* A line of the uploaded file: bytes that are no UTF-8 ("bad_utf8"), white
\* space only ("blank"), text that is no JSON ("not_json"), or the text of a
\* JSON value ("json").
BadUtf8Line == [k |-> "bad_utf8"]
BlankLine == [k |-> "blank"]
NotJsonLine == [k |-> "not_json"]
JsonLine(value) == [k |-> "json", v |-> value]

\* json.dumps(value) of the exporter: one line of text
json_dumps(value) == JsonLine(value)

\* the label recovered from a transformed record (lines 102-108)
RecoveredLabel(processed_record, t) ==
    [human_label_timestamp |->
         Get(processed_record, "human_label_timestamp", Timestamp(t)),
     human_label_classification |->
         Get(processed_record, "human_label_classification", LastClassification),
     human_label_critique |-> Get(processed_record, "human_label_critique", EmptyStr),
     human_label_correct_memory_optional |->
         Get(processed_record, "human_label_correct_memory_optional", EmptyStr)]

\* lines 97-108: a transformed record is appended and its label recovered
KeepRecord(processed_record, acc, t) ==
    IF processed_record = None THEN acc
    ELSE [data |-> Append(acc.data, processed_record),
          labels |->
              IF Truthy(processed_record["observation_id"])
                 /\ "human_label_classification" \in DOMAIN processed_record
              THEN Update(acc.labels,
                          processed_record["observation_id"]
                              :> RecoveredLabel(processed_record, t))
              ELSE acc.labels]

\* one pass of the per-line loop body: acc = [data, labels]; a line that
\* does not decode, is blank or is no JSON is skipped
LoadLine(line, acc, t) ==
    IF line.k # "json" THEN acc
    ELSE KeepRecord(transform_record(line.v), acc, t)

\* a loader that gives up at the first line it cannot use
RECURSIVE LoadLines_StopAtBadLine(_, _, _)
LoadLines_StopAtBadLine(lines, acc, t) ==
    IF lines = <<>> \/ lines[1].k # "json" THEN acc
    ELSE LoadLines_StopAtBadLine(Tail(lines), LoadLine(lines[1], acc, t), t)

RECURSIVE LoadLines(_, _, _)
LoadLines(lines, acc, t) ==
    IF lines = <<>> THEN acc
    ELSE LoadLines(Tail(lines), LoadLine(lines[1], acc, t), t)

\* load_data_and_labels(uploaded_file): [data, labels]
load_data_and_labels(file, t) ==
    IF ~file.present THEN [data |-> <<>>, labels |-> EmptyDict]
    ELSE LoadLines(file.lines, [data |-> <<>>, labels |-> EmptyDict], t)

-----------------------------------------------------------------------------
(* The session: st.session_state as a record                               *)
(*   [all_data, data, index, labels, widgets, current_file_id]             *)
(* widgets maps an observation_id to the values of the three widgets keyed *)
(* label_classification_<id>, critique_<id> and correct_mem_<id>.          *)

NoId == "None"
UploadedId == "uploaded_file.file_id"

Session == [all_data |-> all_data, data |-> data, index |-> index, labels |-> labels,
            widgets |-> widgets, current_file_id |-> current_file_id]

\* the record at a 0-based position of a Python list
At(list, i) == list[i + 1]

\* a label write that starts a new store holding only this label
save_labels_to_state_FreshStore(S, record_id, t) ==
    [S EXCEPT !.labels =
         record_id :> [human_label_timestamp |-> Timestamp(t),
                       human_label_classification |-> LastClassification,
                       human_label_critique |-> EmptyStr,
                       human_label_correct_memory_optional |-> EmptyStr]]

\* a label write that keeps the earlier critique and correction where the
\* new ones are empty
save_labels_to_state_Merge(S, record_id, t) ==
    LET w == Get(S.widgets, record_id, EmptyDict)
        earlier == Get(S.labels, record_id, EmptyDict)
        Merged(field, value) == IF value = EmptyStr THEN Get(earlier, field, EmptyStr) ELSE value
        current_labels ==
            [human_label_timestamp |-> Timestamp(t),
             human_label_classification |-> Get(w, "classification", LastClassification),
             human_label_critique |->
                 Merged("human_label_critique", Get(w, "critique", EmptyStr)),
             human_label_correct_memory_optional |->
                 Merged("human_label_correct_memory_optional", Get(w, "correct_mem", EmptyStr))]
    IN [S EXCEPT !.labels = Update(@, record_id :> current_labels)]

\* save_labels_to_state(current_index, record_id) at clock reading t
save_labels_to_state(S, record_id, t) ==
    LET w == Get(S.widgets, record_id, EmptyDict)
        current_labels ==
            [human_label_timestamp |-> Timestamp(t),
             human_label_classification |-> Get(w, "classification", LastClassification),
             human_label_critique |-> Get(w, "critique", EmptyStr),
             human_label_correct_memory_optional |-> Get(w, "correct_mem", EmptyStr)]
    IN [S EXCEPT !.labels = Update(@, record_id :> current_labels)]

\* a guarded save that leaves out a record without a label whose widgets
\* still show the defaults
SaveCurrent_SkipUntouched(S, t) ==
    IF S.data # <<>> /\ 0 <= S.index /\ S.index < Len(S.data)
    THEN LET current_record_id == At(S.data, S.index)["observation_id"]
             w == Get(S.widgets, current_record_id, EmptyDict)
             untouched ==
                 /\ current_record_id \notin DOMAIN S.labels
                 /\ Get(w, "classification", LastClassification) = LastClassification
                 /\ Get(w, "critique", EmptyStr) = EmptyStr
                 /\ Get(w, "correct_mem", EmptyStr) = EmptyStr
         IN IF Truthy(current_record_id) /\ ~untouched
            THEN save_labels_to_state(S, current_record_id, t)
            ELSE S
    ELSE S

\* "Check if data exists and index is valid before saving" (the first four
\* lines of apply_filter, go_previous and go_next)
SaveCurrent(S, t) ==
    IF S.data # <<>> /\ 0 <= S.index /\ S.index < Len(S.data)
    THEN LET current_record_id == At(S.data, S.index)["observation_id"]
         IN IF Truthy(current_record_id)
            THEN save_labels_to_state(S, current_record_id, t)
            ELSE S
    ELSE S

\* the filter the function had before: only the records with a memory alert
apply_filter_MemoryAlertsOnly(S, t) ==
    LET S1 == SaveCurrent(S, t)
        IsMemoryAlert(record) == record["alert_type"] = Str("memory")
    IN [S1 EXCEPT !.data = SelectSeq(S1.all_data, IsMemoryAlert), !.index = 0]

apply_filter(S, t) ==
    LET S1 == SaveCurrent(S, t)
    IN [S1 EXCEPT !.data = S1.all_data, !.index = 0]

go_previous(S, t) ==
    LET S1 == SaveCurrent(S, t)
    IN [S1 EXCEPT !.index = IF @ > 0 THEN @ - 1 ELSE @]

\* an advance that moves first and saves afterwards
go_next_MoveFirst(S, t) ==
    SaveCurrent([S EXCEPT !.index = IF @ < Len(S.data) - 1 THEN @ + 1 ELSE @], t)

\* an advance that wraps around at the last position
go_next_Wrap(S, t) ==
    LET S1 == SaveCurrent(S, t)
    IN [S1 EXCEPT !.index = IF @ < Len(S1.data) - 1 THEN @ + 1 ELSE 0]

go_next(S, t) ==
    LET S1 == SaveCurrent(S, t)
    IN [S1 EXCEPT !.index = IF @ < Len(S1.data) - 1 THEN @ + 1 ELSE @]

\* the session cleared (lines 415-420 and 424-429)
Cleared(S) ==
    [S EXCEPT !.all_data = <<>>, !.data = <<>>, !.labels = EmptyDict,
              !.current_file_id = NoId, !.index = 0]

\* lines 407-420: the session takes the loaded file, or is cleared
TakeLoaded(S, loaded, t) ==
    IF loaded.data # <<>>
    THEN apply_filter([S EXCEPT !.all_data = loaded.data,
                                !.labels = loaded.labels,
                                !.current_file_id = UploadedId], t)
    ELSE Cleared(S)

\* Data Loading Logic of a script run; isNew: the uploader holds a file
\* whose file_id differs from every id seen before
DataLoading(S, file, isNew, t) ==
    IF file.present
    THEN IF isNew \/ S.current_file_id # UploadedId
         THEN TakeLoaded(S, load_data_and_labels(file, t), t)
         ELSE S
    ELSE IF S.current_file_id # NoId THEN Cleared(S) ELSE S

Max(a, b) == IF a >= b THEN a ELSE b

\* Sidebar Navigation: the index clamped on every script run (lines 432-446)
ClampIndex(S) ==
    IF S.all_data # <<>>
    THEN LET total_filtered_records == Len(S.data)
             c1 == IF S.index >= total_filtered_records
                   THEN Max(0, total_filtered_records - 1) ELSE S.index
             c2 == IF total_filtered_records = 0 THEN 0
                   ELSE IF c1 < 0 THEN 0 ELSE c1
         IN [S EXCEPT !.index = c2]
    ELSE S

InTaxonomy(c) == \E i \in DOMAIN LABEL_CLASSIFICATIONS : LABEL_CLASSIFICATIONS[i] = c

\* Main Area: the three widgets of the current record are rendered; a key
\* already in the session state keeps its value, a new one takes the value
\* of the stored label or the default; the keys of widgets that are not
\* rendered in this run are dropped by the framework
RenderWidgets(S) ==
    IF S.data # <<>> /\ 0 <= S.index /\ S.index < Len(S.data)
    THEN LET record_id == At(S.data, S.index)["observation_id"]
             existing_labels == Get(S.labels, record_id, EmptyDict)
             classification ==
                 Get(existing_labels, "human_label_classification", LastClassification)
             fresh ==
                 [classification |->
                      IF InTaxonomy(classification) THEN classification
                      ELSE LastClassification,
                  correct_mem |->
                      Get(existing_labels, "human_label_correct_memory_optional", EmptyStr),
                  critique |-> Get(existing_labels, "human_label_critique", EmptyStr)]
         IN [S EXCEPT !.widgets = record_id :> Get(S.widgets, record_id, fresh)]
    ELSE [S EXCEPT !.widgets = EmptyDict]


\* an export that writes every record, labelled or not
RECURSIVE ExportLoop_EveryRecord(_, _)
ExportLoop_EveryRecord(records, lbls) ==
    IF records = <<>> THEN <<>>
    ELSE <<json_dumps(JObj(Update(records[1],
                                   Get(lbls, records[1]["observation_id"], EmptyDict))))>>
             \o ExportLoop_EveryRecord(Tail(records), lbls)

\* generate_labeled_data_jsonl(): the lines of the text it returns
RECURSIVE ExportLoop(_, _)
ExportLoop(records, lbls) ==
    IF records = <<>> THEN <<>>
    ELSE LET record == records[1]
             rest == ExportLoop(Tail(records), lbls)
         IN IF "observation_id" \notin DOMAIN record THEN rest
            ELSE IF record["observation_id"] \in DOMAIN lbls
                 THEN <<json_dumps(JObj(Update(record, lbls[record["observation_id"]])))>>
                          \o rest
                 ELSE rest

generate_labeled_data_jsonl(S) ==
    IF S.all_data # <<>> /\ DOMAIN S.labels # {}
    THEN ExportLoop(S.all_data, S.labels)
    ELSE <<>>

\* an iteration without the copy: merged_record is the stored dict itself
ExportIteration_NoCopy(record, lbls) ==
    LET merged == IF "observation_id" \in DOMAIN record
                     /\ record["observation_id"] \in DOMAIN lbls
                  THEN Update(record, lbls[record["observation_id"]])
                  ELSE record
    IN [stored |-> merged, merged_record |-> merged]

\* one iteration of the loop of generate_labeled_data_jsonl on the two dicts
\* it handles: the one stored in all_data and merged_record, which is a
\* copy (record.copy()), so that update() changes the copy only
ExportIteration(record, lbls) ==
    [stored |-> record,
     merged_record |->
         IF "observation_id" \in DOMAIN record /\ record["observation_id"] \in DOMAIN lbls
         THEN Update(record, lbls[record["observation_id"]])
         ELSE record]

\* the dicts held by all_data once the loop has run
ExportStored(records, lbls) ==
    [k \in DOMAIN records |-> ExportIteration(records[k], lbls).stored]

\* Save Progress in the sidebar (lines 505-515): with a dataset and labels,
\* generate_labeled_data_jsonl() runs on every script run
SidebarExport(S) ==
    IF S.all_data # <<>> /\ DOMAIN S.labels # {}
    THEN [S EXCEPT !.all_data = ExportStored(S.all_data, S.labels)]
    ELSE S

\* one run of the script after an event: loading logic, sidebar (index
\* clamping, then the export behind the download button), main area
Rerun(S, file, isNew, t) ==
    RenderWidgets(SidebarExport(ClampIndex(DataLoading(S, file, isNew, t))))

-----------------------------------------------------------------------------
(* Inputs *)

SeqsUpTo(S, n) == UNION {[1..k -> S] : k \in 0..n}

MemoryOutput == JStr(<<"hi ", "<MEMORY", ">x</MEMORY>">>)

Line_a == JsonLine(JObj([id |-> Str("a"), output |-> MemoryOutput]))
Line_b == JsonLine(JObj([id |-> Str("b"), output |-> Str("no tag here")]))
Line_trace_a == JsonLine(JObj([traceId |-> Str("a")]))
Line_a_labeled ==
    JsonLine(JObj([id |-> Str("a"),
                   human_label_classification |-> Str("Correct"),
                   human_label_critique |-> Str("c")]))

\* the files a user uploads: one record, two records, three records two
\* of which carry the same identifier, a file that was labelled before, and
\* two files without any record
SessionFiles ==
    {<<Line_a>>,
     <<Line_a, Line_b>>,
     <<Line_b, NotJsonLine, Line_trace_a, Line_a>>,
     <<Line_a_labeled, BlankLine, Line_b>>,
     <<NotJsonLine>>,
     <<>>}

\* what a user can type into the two text areas
CritiqueTexts == {EmptyStr, Str("c")}
CorrectionTexts == {EmptyStr, Str("m")}

-----------------------------------------------------------------------------
(* The session's events.  Every event is handled to completion: the        *)
(* callback, then one run of the script.                                   *)

\* history: the event handled last and, for a navigation callback and for
\* apply_filter, the index it was called at
Op(name, from) == [op |-> name, from |-> from]

SetSession(S) ==
    /\ all_data' = S.all_data
    /\ data' = S.data
    /\ index' = S.index
    /\ labels' = S.labels
    /\ widgets' = S.widgets
    /\ current_file_id' = S.current_file_id

\* the widgets of the current record are on the page
HasCurrent == data # <<>> /\ 0 <= index /\ index < Len(data)
CurrentId == At(data, index)["observation_id"]

\* a new file is chosen in the uploader
Upload(file, t) ==
    /\ uploaded_file' = File(file)
    /\ SetSession(Rerun(Session, File(file), TRUE, t))
    /\ lastOp' = Op("upload", 0)
    /\ UNCHANGED <<extractVars, loadVars>>

\* the file is removed from the uploader
RemoveFile(t) ==
    /\ uploaded_file.present
    /\ uploaded_file' = NoFile
    /\ SetSession(Rerun(Session, NoFile, FALSE, t))
    /\ lastOp' = Op("remove", 0)
    /\ UNCHANGED <<extractVars, loadVars>>

\* the callbacks of the two buttons
GoNext(t) ==
    /\ all_data # <<>>
    /\ SetSession(Rerun(go_next(Session, t), uploaded_file, FALSE, t))
    /\ lastOp' = Op("go_next", index)
    /\ UNCHANGED <<uploaded_file, extractVars, loadVars>>

GoPrevious(t) ==
    /\ all_data # <<>>
    /\ SetSession(Rerun(go_previous(Session, t), uploaded_file, FALSE, t))
    /\ lastOp' = Op("go_previous", index)
    /\ UNCHANGED <<uploaded_file, extractVars, loadVars>>

\* apply_filter as a callback of its own
ApplyFilter(t) ==
    /\ all_data # <<>>
    /\ SetSession(Rerun(apply_filter(Session, t), uploaded_file, FALSE, t))
    /\ lastOp' = Op("apply_filter", index)
    /\ UNCHANGED <<uploaded_file, extractVars, loadVars>>

\* a widget of the current record changes: its key takes the new value,
\* then on_change = save_labels_to_state runs
EditWidget(key, value, t) ==
    /\ HasCurrent
    /\ widgets[CurrentId][key] # value
    /\ LET S1 == [Session EXCEPT !.widgets[CurrentId][key] = value]
       IN SetSession(Rerun(save_labels_to_state(S1, CurrentId, t), uploaded_file, FALSE, t))
    /\ lastOp' = Op("edit", 0)
    /\ UNCHANGED <<uploaded_file, extractVars, loadVars>>

EditClassification(t) ==
    \E i \in DOMAIN LABEL_CLASSIFICATIONS : EditWidget("classification", LABEL_CLASSIFICATIONS[i], t)
EditCritique(t) == \E x \in CritiqueTexts : EditWidget("critique", x, t)
EditCorrection(t) == \E x \in CorrectionTexts : EditWidget("correct_mem", x, t)

\* the download button is on the page (lines 506-515)
CanDownload == all_data # <<>> /\ DOMAIN labels # {} /\ generate_labeled_data_jsonl(Session) # <<>>

\* the labelled data is downloaded and the downloaded file is uploaded
ReuploadExport(t) ==
    /\ CanDownload
    /\ LET file == File(generate_labeled_data_jsonl(Session))
       IN /\ uploaded_file' = file
          /\ SetSession(Rerun(Session, file, TRUE, t))
    /\ lastOp' = Op("reupload_export", 0)
    /\ UNCHANGED <<extractVars, loadVars>>

InitSession ==
    /\ uploaded_file = NoFile
    /\ all_data = <<>> /\ data = <<>> /\ index = 0
    /\ labels = EmptyDict /\ widgets = EmptyDict /\ current_file_id = NoId
    /\ lastOp = Op("init", 0)

Init ==
    /\ InitSession
    /\ raw = Pending /\ extracted = Pending
    /\ input_lines = NoFile /\ load_result = Pending

Next ==
    \E t \in Times :
        \/ \E file \in SessionFiles : Upload(file, t)
        \/ RemoveFile(t)
        \/ GoNext(t)
        \/ GoPrevious(t)
        \/ ApplyFilter(t)
        \/ EditClassification(t)
        \/ EditCritique(t)
        \/ EditCorrection(t)
        \/ ReuploadExport(t)

Spec == Init /\ [][Next]_vars

-----------------------------------------------------------------------------
(* transform_record alone: the raw records it is applied to *)

\* the longest input.messages list of a raw record
MaxMessages == 2

Absent == [absent |-> TRUE]
\* the dict with the fields of choices that are not Absent
MkDict(choices) == [k \in {f \in DOMAIN choices : choices[f] # Absent} |-> choices[k]]

Msg(role, content) == JObj([role |-> Str(role), content |-> content])
Msg_system == Msg("system", Str("You are Delphi"))
Msg_system_null == Msg("system", PyNone)
Msg_user_null == Msg("user", PyNone)
Msg_history == Msg("user", JStr(<<"Chat history", ": ", "[", "{m1}", "]">>))
Msg_memories == Msg("user", JStr(<<"Current memories", Fence, "[", "{m2}", "]", Fence>>))
Msg_metadata == Msg("user", JStr(<<"Chat metadata", Fence, "{k:v}", Fence>>))

\* one message with both blocks, the metadata block first
Msg_metadata_memories ==
    Msg("user", JStr(<<"Chat metadata", Fence, "{k:v}", Fence,
                       "Current memories", Fence, "[", "{m2}", "]", Fence>>))

\* the array opens the content, the header follows it
Msg_history_first == Msg("user", JStr(<<"[", "7", "]", "Chat history">>))
\* header and brackets, but no JSON between the brackets
Msg_history_bad == Msg("user", JStr(<<"Chat history", "[", "oops", "]">>))

MessageShapes == {Msg_system, Msg_system_null, Msg_user_null, Msg_history,
                  Msg_history_first, Msg_history_bad,
                  Msg_memories, Msg_metadata, Msg_metadata_memories, JNum(3)}

IdOptions == {Absent, Str("a"), EmptyStr, JNum(0), JNum(7), PyNone}
TraceIdOptions == {Absent, Str("t"), EmptyStr}
OutputOptions == {Absent, Str("no tag here"), MemoryOutput, JNum(5), PyNone,
                  JList(<<Str("<MEMORY")>>)}
InputOptions ==
    {Absent, JNum(1), Str("messages"), Str("plain"), JObj(EmptyDict),
     JObj([messages |-> PyNone]), JObj([messages |-> Str("x")])}
        \cup {JObj([messages |-> JList(m)]) : m \in SeqsUpTo(MessageShapes, MaxMessages)}

RawRecords ==
    {JObj(MkDict(c)) : c \in [id : IdOptions, traceId : TraceIdOptions,
                              output : OutputOptions, input : InputOptions]}
        \cup {JList(<<>>), JNum(5), Str("text"), PyNone}

InitExtract ==
    /\ InitSession
    /\ raw \in RawRecords /\ extracted = Pending
    /\ input_lines = NoFile /\ load_result = Pending

Extract ==
    /\ extracted = Pending
    /\ extracted' = transform_record(raw)
    /\ UNCHANGED <<sessionVars, raw, loadVars>>

SpecExtract == InitExtract /\ [][Extract]_vars

-----------------------------------------------------------------------------
(* load_data_and_labels alone: the files it is applied to *)

\* the longest file given to the loader, in lines
MaxLines == 3

Line_b_labeled ==
    JsonLine(JObj([traceId |-> Str("b"),
                   human_label_timestamp |-> JNum(1),
                   human_label_classification |-> Str("Incorrect"),
                   human_label_critique |-> Str("c"),
                   human_label_correct_memory_optional |-> Str("m")]))
Line_no_id == JsonLine(JObj([output |-> Str("no tag here")]))
Line_empty_id == JsonLine(JObj([id |-> EmptyStr, output |-> MemoryOutput]))
Line_number_output == JsonLine(JObj([id |-> Str("c"), output |-> JNum(5)]))
Line_not_object == JsonLine(JList(<<JNum(7)>>))

LoaderLines == {Line_a, Line_b, Line_trace_a, Line_a_labeled, Line_b_labeled,
                Line_no_id, Line_empty_id, Line_number_output, Line_not_object,
                NotJsonLine, BlankLine, BadUtf8Line}

InitLoad ==
    /\ InitSession
    /\ raw = Pending /\ extracted = Pending
    /\ input_lines \in {File(f) : f \in SeqsUpTo(LoaderLines, MaxLines)}
    /\ load_result = Pending

Load ==
    /\ load_result = Pending
    /\ \E t \in Times : load_result' = load_data_and_labels(input_lines, t)
    /\ UNCHANGED <<sessionVars, extractVars, input_lines>>

SpecLoad == InitLoad /\ [][Load]_vars

-----------------------------------------------------------------------------
(* Claims *)

SameDict(d, e) == DOMAIN d = DOMAIN e /\ \A k \in DOMAIN d : d[k] = e[k]

\* the three label fields a user sets agree
SameJudgment(l, m) ==
    /\ l["human_label_classification"] = m["human_label_classification"]
    /\ l["human_label_critique"] = m["human_label_critique"]
    /\ l["human_label_correct_memory_optional"] = m["human_label_correct_memory_optional"]

Labeled(record) == record["observation_id"] \in DOMAIN labels

\* C1: after the exported text is loaded again, every exported (labelled)
\* record is a record of the dataset with the same observation_id, and the
\* label store holds for it the classification, critique and correction
\* text that were exported.
C1_RoundTrip ==
    lastOp.op = "reupload_export" =>
        \A i \in DOMAIN uploaded_file.lines :
            LET exported == uploaded_file.lines[i].v.v
            IN \E j \in DOMAIN all_data :
                   /\ all_data[j]["observation_id"] = exported["observation_id"]
                   /\ Labeled(all_data[j])
                   /\ SameJudgment(labels[exported["observation_id"]], exported)

\* C2: immediately after a new file is loaded the label store holds exactly
\* the labels recovered from that file, and nothing written from the
\* previous session's current record.
C2_FullResetOnUpload ==
    lastOp.op = "upload" =>
        \E t \in Times : SameDict(labels, load_data_and_labels(uploaded_file, t).labels)

\* C3: every input line that yields a record and carries a
\* human_label_classification field has an entry in recovered_labels under
\* the record's observation_id, with the line's classification, critique
\* and correction (an absent critique or correction being the empty string).
C3_LabelRecovery ==
    load_result # Pending =>
        \A i \in DOMAIN input_lines.lines :
            LET line == input_lines.lines[i]
            IN (/\ line.k = "json"
                /\ transform_record(line.v) # None
                /\ "human_label_classification" \in DOMAIN line.v.v)
               => LET id == transform_record(line.v)["observation_id"]
                      fields == line.v.v
                  IN /\ id \in DOMAIN load_result.labels
                     /\ load_result.labels[id]["human_label_classification"]
                            = fields["human_label_classification"]
                     /\ load_result.labels[id]["human_label_critique"]
                            = Get(fields, "human_label_critique", EmptyStr)
                     /\ load_result.labels[id]["human_label_correct_memory_optional"]
                            = Get(fields, "human_label_correct_memory_optional", EmptyStr)

\* the fields of a transformed record, as the exported line repeats them
RecordFields == {"observation_id", "llm_output", "system_prompt", "chat_history",
                 "existing_memories", "chat_metadata", "alert_type"}

\* C4: the export has one line for each record of the complete dataset
\* whose observation_id has a stored label and no other line, in the order
\* of the dataset, and is empty when no record is labelled.
C4_ExportExactlyLabeled ==
    LET out == generate_labeled_data_jsonl(Session)
        expected == SelectSeq(all_data, Labeled)
    IN /\ Len(out) = Len(expected)
       /\ \A k \in DOMAIN expected :
              /\ out[k].k = "json"
              /\ \A f \in RecordFields : out[k].v.v[f] = expected[k][f]
              /\ SameJudgment(out[k].v.v, labels[expected[k]["observation_id"]])
       /\ ((\A j \in DOMAIN all_data : ~Labeled(all_data[j])) => out = <<>>)

\* C4: three records, those of one identifier labelled and the third not
C4_Witness ==
    /\ Len(all_data) = 3
    /\ Len(generate_labeled_data_jsonl(Session)) = 2
    /\ \E j \in DOMAIN all_data : ~Labeled(all_data[j])

\* the raw objects of the uploaded file's lines that became records, in order
AcceptedRaw ==
    SelectSeq(uploaded_file.lines,
              LAMBDA line : line.k = "json" /\ transform_record(line.v) # None)

\* the exported line of the labelled record at position k of all_data
ExportedLineOf(k) ==
    generate_labeled_data_jsonl(Session)[Cardinality({j \in 1..k : Labeled(all_data[j])})]

\* C5: every exported line contains every field of the raw JSON object read
\* from the input line its record came from, with the value unchanged (the
\* four label fields excepted, which the label overwrites).
C5_RawFieldsExported ==
    Len(AcceptedRaw) = Len(all_data) =>
        \A k \in DOMAIN all_data :
            Labeled(all_data[k]) =>
                \A f \in DOMAIN AcceptedRaw[k].v.v \ LabelFields :
                    /\ f \in DOMAIN ExportedLineOf(k).v.v
                    /\ ExportedLineOf(k).v.v[f] = AcceptedRaw[k].v.v[f]

\* current_index is a position of the active sequence, or 0 when it is empty
IndexInRange ==
    IF data = <<>> THEN index = 0 ELSE 0 <= index /\ index <= Len(data) - 1

\* an advance at the last position and a retreat at position 0 leave the index
NoWrapAround ==
    /\ (lastOp'.op = "go_next" /\ data # <<>> /\ index = Len(data) - 1) => index' = index
    /\ (lastOp'.op = "go_previous" /\ index = 0) => index' = 0

\* C6: after every event current_index is within [0, len-1] of the active
\* sequence, or 0 when the sequence is empty; an advance at the last
\* position leaves it at len-1 and a retreat at position 0 leaves it at 0.
C6_IndexInRange == [](IndexInRange) /\ [][NoWrapAround]_vars

\* C6: an advance was called at the last position of a dataset of several records
C6_Witness ==
    /\ lastOp.op = "go_next"
    /\ Len(data) >= 2
    /\ lastOp.from = Len(data) - 1
    /\ index = Len(data) - 1

\* a navigation callback, called while a current record exists, writes the
\* label of the record at the index before the move from that record's
\* widget values, and changes no other label
PersistStep ==
    (lastOp'.op \in {"go_next", "go_previous"} /\ HasCurrent) =>
        /\ CurrentId \in DOMAIN labels'
        /\ labels'[CurrentId]["human_label_classification"]
               = widgets[CurrentId]["classification"]
        /\ labels'[CurrentId]["human_label_critique"] = widgets[CurrentId]["critique"]
        /\ labels'[CurrentId]["human_label_correct_memory_optional"]
               = widgets[CurrentId]["correct_mem"]
        /\ \A id \in DOMAIN labels' \ {CurrentId} :
               id \in DOMAIN labels /\ labels'[id] = labels[id]

\* C7: every advance or retreat performed while a current record exists
\* writes a label for the record at the pre-move index, built from that
\* record's pending field values, also when the index cannot move; no label
\* is written for the record at the new index.
C7_PersistBeforeMove == [][PersistStep]_vars

\* C7: an advance moved the index; the record it left is labelled with the
\* critique typed for it and the record it arrived at is not labelled
C7_Witness ==
    /\ lastOp.op = "go_next"
    /\ index = lastOp.from + 1
    /\ Labeled(At(data, lastOp.from))
    /\ labels[At(data, lastOp.from)["observation_id"]]["human_label_critique"] = Str("c")
    /\ ~Labeled(At(data, index))

\* C8: no two records of a loaded dataset have the same observation_id.
C8_UniqueIds ==
    load_result # Pending =>
        \A i, j \in DOMAIN load_result.data :
            i # j => load_result.data[i]["observation_id"]
                         # load_result.data[j]["observation_id"]

Present(r, f) == f \in DOMAIN r
TruthyField(r, f) == f \in DOMAIN r /\ Truthy(r[f])

OutputUsable(r) == ~Present(r, "output") \/ r["output"].ty \in {"str", "list", "obj"}

\* input is absent, or an object whose messages, if present, is an array of
\* objects in which the content of every system message is absent or a string
InputUsable(r) ==
    \/ ~Present(r, "input")
    \/ /\ r["input"].ty = "obj"
       /\ \/ ~Present(r["input"].v, "messages")
          \/ /\ r["input"].v["messages"].ty = "list"
             /\ \A i \in DOMAIN r["input"].v["messages"].v :
                    LET m == r["input"].v["messages"].v[i]
                    IN /\ m.ty = "obj"
                       /\ (Present(m.v, "role") /\ m.v["role"] = Str("system"))
                              => (~Present(m.v, "content") \/ m.v["content"].ty = "str")

UsableLines(lines) ==
    SelectSeq(lines, LAMBDA line : line.k = "json" /\ transform_record(line.v) # None)

\* C10: the loaded records are the extractor's results for the usable
\* lines, in input order; any other line removes only itself.
C10_PerLineResilience ==
    load_result # Pending =>
        /\ Len(load_result.data) = Len(UsableLines(input_lines.lines))
        /\ \A k \in DOMAIN load_result.data :
               load_result.data[k] = transform_record(UsableLines(input_lines.lines)[k].v)

\* C10: a malformed line between two valid lines, and both records loaded
C10_Witness ==
    /\ load_result # Pending
    /\ input_lines.lines = <<Line_a, NotJsonLine, Line_b>>
    /\ Len(load_result.data) = 2
    /\ load_result.data[2]["observation_id"] = Str("b")

\* C11: from every reachable session state, apply_filter called twice in a
\* row (a filter applied, then cleared) leaves the active sequence equal to
\* the complete dataset, record for record and in the same order, leaves
\* the complete dataset as it was, and sets current_index to 0; the same
\* holds in the state reached by an apply_filter event.
C11_FilterThenClear ==
    /\ \A t1 \in Times, t2 \in Times :
           LET S2 == apply_filter(apply_filter(Session, t1), t2)
           IN S2.data = all_data /\ S2.all_data = all_data /\ S2.index = 0
    /\ lastOp.op = "apply_filter" => data = all_data /\ index = 0

\* C11: apply_filter was called away from position 0 of a dataset of
\* several records: all of them are in the active sequence, at position 0
C11_Witness ==
    /\ lastOp.op = "apply_filter"
    /\ lastOp.from > 0
    /\ Len(all_data) >= 2
    /\ data = all_data
    /\ index = 0

\* the events that load a file or remove it
LoadingOps == {"upload", "reupload_export", "remove"}

\* an observation_id with a label loses it only in a step that loads a file
\* or removes the file
LabelsKept ==
    (\E id \in DOMAIN labels : id \notin DOMAIN labels') => lastOp'.op \in LoadingOps

\* C12: once an observation_id has a label in the store it still has one
\* after every advance, retreat, apply_filter and field edit, each followed
\* by the script run that builds the export; a label leaves the store only
\* when a file is loaded or the file is removed.
C12_LabelPersistence == [][LabelsKept]_vars

\* C12: a retreat was made with two labelled records in the store, one of
\* which was labelled before the retreat
C12_Witness ==
    /\ lastOp.op = "go_previous"
    /\ Cardinality(DOMAIN labels) >= 2

\* every step that neither loads a file nor removes it leaves the complete
\* dataset as it was
DatasetKept == lastOp'.op \notin LoadingOps => all_data' = all_data

\* C13: advance, retreat, field edits (label writes) and apply_filter, each
\* with the script run and export that follow it, leave the complete
\* dataset the same sequence of records with the same fields and values;
\* no stored record ever carries a label field.
C13_DatasetUnchanged ==
    /\ [][DatasetKept]_vars
    /\ [](\A k \in DOMAIN all_data : DOMAIN all_data[k] \cap LabelFields = {})

\* C13: a field was edited and the export ran with a labelled record in
\* the dataset
C13_Witness ==
    /\ lastOp.op = "edit"
    /\ \E k \in DOMAIN all_data : Labeled(all_data[k])
    /\ generate_labeled_data_jsonl(Session) # <<>>

\* the label a write for id makes at clock reading t: the values of the
\* three widgets keyed by id, the defaults for the keys that are not there
WrittenLabel(id, t) ==
    LET w == Get(widgets, id, EmptyDict)
    IN [human_label_timestamp |-> Timestamp(t),
        human_label_classification |-> Get(w, "classification", LastClassification),
        human_label_critique |-> Get(w, "critique", EmptyStr),
        human_label_correct_memory_optional |-> Get(w, "correct_mem", EmptyStr)]

\* the identifiers of the dataset and of the label store
KnownIds == {all_data[k]["observation_id"] : k \in DOMAIN all_data} \cup DOMAIN labels

\* a label write for id in the current session state
WriteReplaces(id, t) ==
    LET S2 == save_labels_to_state(Session, id, t)
    IN /\ id \in DOMAIN S2.labels
       /\ DOMAIN S2.labels[id] = LabelFields
       /\ S2.labels[id] = WrittenLabel(id, t)
       /\ DOMAIN S2.labels = DOMAIN labels \cup {id}
       /\ \A other \in DOMAIN labels \ {id} : S2.labels[other] = labels[other]
       /\ S2.all_data = all_data /\ S2.data = data /\ S2.index = index

\* a field edit, which ends with a label write for the current record
EditWrites ==
    (lastOp'.op = "edit" /\ HasCurrent) =>
        /\ \E t \in Times : labels'[CurrentId] = [WrittenLabel(CurrentId, t)
                                   EXCEPT !["human_label_classification"] =
                                              widgets'[CurrentId]["classification"],
                                          !["human_label_critique"] =
                                              widgets'[CurrentId]["critique"],
                                          !["human_label_correct_memory_optional"] =
                                              widgets'[CurrentId]["correct_mem"]]
        /\ \A other \in DOMAIN labels \ {CurrentId} :
               other \in DOMAIN labels' /\ labels'[other] = labels[other]
        /\ all_data' = all_data /\ index' = index

\* C14: a label write for an observation_id puts in the store, under that
\* id, a label made of exactly the four fields of this write (nothing of
\* the earlier label of the id remains), and leaves the label of every
\* other id, the complete dataset and current_index as they were; this
\* holds for a write made in any reachable state and for the write a field
\* edit ends with.
C14_WriteReplacesWhole ==
    /\ [](\A id \in KnownIds : \A t \in Times : WriteReplaces(id, t))
    /\ [][EditWrites]_vars

\* C14: a field edit brought the current record's label back to the
\* defaults, over an earlier label of the record that had another value,
\* while another record is labelled
C14_Witness ==
    /\ lastOp.op = "edit"
    /\ HasCurrent
    /\ CurrentId \in DOMAIN labels
    /\ labels[CurrentId]["human_label_classification"] = LastClassification
    /\ labels[CurrentId]["human_label_critique"] = EmptyStr
    /\ labels[CurrentId]["human_label_correct_memory_optional"] = EmptyStr
    /\ DOMAIN labels # {CurrentId}

\* the block that follows the header: what is between the first two fence
\* markers of the content after the header match, parsed and kept when it
\* has the wanted type
BlockAfterHeader(header, wantTy, content, cur) ==
    LET after == Slice(content.v, Find(content.v, header) + 1, Len(content.v))
        start_idx == Find(after, Fence) + 1
        rest == Slice(after, start_idx, Len(after))
        end_idx == Find(rest, Fence)
        p == json_loads_text(Strip(Slice(rest, 0, end_idx)))
    IN IF InHolds(Fence, JStr(after)) /\ end_idx >= 0 /\ p.ok /\ p.val.ty = wantTy
       THEN p.val ELSE cur

\* the value of the field after the messages, each message with the header
\* and a fence marker giving the block that follows its header
RECURSIVE FieldAfterHeader(_, _, _, _)
FieldAfterHeader(header, wantTy, items, cur) ==
    IF items = <<>> THEN cur
    ELSE LET content == Content(items[1])
         IN IF content.ty = "str" /\ InHolds(header, content) /\ InHolds(Fence, content)
            THEN FieldAfterHeader(header, wantTy, Tail(items),
                                  BlockAfterHeader(header, wantTy, content, cur))
            ELSE LET s == FenceStep(header, wantTy, content, cur)
                 IN IF s.abort THEN s.val
                    ELSE FieldAfterHeader(header, wantTy, Tail(items), s.val)

\* C15: in an extracted record, existing_memories and chat_metadata are the
\* blocks found after the header text "Current memories" / "Chat metadata"
\* of a message (between the first two fence markers that follow the
\* header), kept when they parse to an array / an object; a fenced block
\* standing before the header in the same message is not the one parsed.
C15_BlockAfterHeader ==
    (extracted # Pending /\ extracted # None) =>
        LET items == IF HasMessages(raw.v) THEN Items(Messages(raw.v)) ELSE <<>>
        IN /\ extracted["existing_memories"]
                  = FieldAfterHeader("Current memories", "list", items, JList(<<>>))
           /\ extracted["chat_metadata"]
                  = FieldAfterHeader("Chat metadata", "obj", items, JObj(EmptyDict))

\* a message qualifies for the chat history: its content is text with
\* "Chat history", "[" and "]", and the text from the first "[" to the last
\* "]" parses to an array
HistoryOf(msg) ==
    LET content == Content(msg)
    IN json_loads_text(Slice(content.v, Find(content.v, "["), RFind(content.v, "]") + 1))
Qualifies(msg) ==
    /\ msg.ty = "obj"
    /\ Content(msg).ty = "str"
    /\ InHolds("Chat history", Content(msg))
    /\ InHolds("[", Content(msg)) /\ InHolds("]", Content(msg))
    /\ HistoryOf(msg).ok /\ HistoryOf(msg).val.ty = "list"

\* the array of the last qualifying message, the empty array without one
LastQualifying(items) ==
    IF \E i \in DOMAIN items : Qualifies(items[i])
    THEN LET last == CHOOSE i \in DOMAIN items :
                         Qualifies(items[i]) /\ \A j \in (i + 1)..Len(items) : ~Qualifies(items[j])
         IN HistoryOf(items[last]).val
    ELSE JList(<<>>)

\* C16: chat_history of an extracted record is the array parsed from the
\* text between the first "[" and the last "]" of the last message whose
\* content has "Chat history", "[" and "]" and parses that way, wherever
\* the first "[" stands (position 0 included); it is the empty array when
\* no message qualifies, and a message that matches but does not parse
\* changes nothing.
C16_LastSuccessWins ==
    (extracted # Pending /\ extracted # None) =>
        LET items == IF HasMessages(raw.v) THEN Items(Messages(raw.v)) ELSE <<>>
        IN extracted["chat_history"] = LastQualifying(items)

\* the exported text of the next state has a line for the observation_id
ExportedNext(id) ==
    LET lines == ExportLoop(all_data', labels')
    IN \E i \in DOMAIN lines : lines[i].v.v["observation_id"] = id

\* an advance or a retreat from the current record: a record without a
\* label gets one with the last entry of the taxonomy and empty texts, a
\* labelled record keeps its three judgment fields; either way the record
\* is in the export afterwards
StepPast ==
    (lastOp'.op \in {"go_next", "go_previous"} /\ HasCurrent) =>
        /\ CurrentId \in DOMAIN labels'
        /\ ExportedNext(CurrentId)
        /\ CurrentId \notin DOMAIN labels =>
               /\ labels'[CurrentId]["human_label_classification"]
                      = LABEL_CLASSIFICATIONS[Len(LABEL_CLASSIFICATIONS)]
               /\ labels'[CurrentId]["human_label_critique"] = EmptyStr
               /\ labels'[CurrentId]["human_label_correct_memory_optional"] = EmptyStr
        /\ CurrentId \in DOMAIN labels => SameJudgment(labels'[CurrentId], labels[CurrentId])

\* C17: an advance or retreat away from a record that has no label (its
\* fields were never edited) creates a label for it with the taxonomy's
\* last classification and empty critique and correction, and the record
\* appears in the export; away from a labelled record, with no edit in
\* between, classification, critique and correction stay as they were.
C17_StepPastLabels == [][StepPast]_vars

\* C17: an advance moved on from a record that now carries the default
\* label and is exported, while the record arrived at has no label
C17_Witness ==
    /\ lastOp.op = "go_next"
    /\ lastOp.from < index
    /\ LET left == At(data, lastOp.from)["observation_id"]
       IN /\ left \in DOMAIN labels
          /\ labels[left]["human_label_classification"] = LastClassification
          /\ labels[left]["human_label_critique"] = EmptyStr
          /\ labels[left]["human_label_correct_memory_optional"] = EmptyStr
          /\ \E i \in DOMAIN generate_labeled_data_jsonl(Session) :
                 generate_labeled_data_jsonl(Session)[i].v.v["observation_id"] = left
    /\ CurrentId \notin DOMAIN labels

====
